---- MODULE Spec2Model ----
(***************************************************************************)
(* State-machine model of the WebGL animations of d0sboots/tesseract:      *)
(*   - the geometry packer addPolygon / initBuffers (three variants),      *)
(*   - the start-up script, the render loop animate and the pointer        *)
(*     handlers of the interactive cube (src/unnamed/part_001).            *)
(*                                                                         *)
(* Numbers.  JavaScript numbers are modelled exactly where the code only   *)
(* adds and multiplies: polygon coordinates and pointer coordinates are    *)
(* integers, throw_state and the entries of modelMatrix are rationals      *)
(* (an integer numerator over a positive denominator), NaN and undefined   *)
(* are values of their own.  Rounding of the results to float32/float64    *)
(* is not modelled.  Math.cos, Math.sin and Math.exp are evaluated through *)
(* tables of their values at the sampled arguments, rounded as stated at   *)
(* the tables.                                                             *)
(***************************************************************************)
EXTENDS Integers, Sequences, FiniteSets

VARIABLES
  variant,      \* which file's addPolygon is in use: "signed" (part_001), "biased" (part_000), "strip" (tesseract.js)
  buffers,      \* the "buffers" object: vertexArray, indexArray, vertexCount, indexCount
  points,       \* addPolygon: the points argument of the last call
  color,        \* addPolygon: the color argument of the last call
  bufferIdx,    \* addPolygon (tesseract.js): the bufferIdx argument of the last call
  cross,        \* addPolygon: the local "cross" of the last call
  thrown,       \* the exception that ended the script, if any
  calls,        \* number of addPolygon calls made so far (in the current phase of the packing harness)
  pc,           \* position of the top-level script / event loop
  env,          \* what the browser provides: [webgl, vao] (BOOLEAN each)
  gl,           \* const gl: "uninit", "null" or "context"
  vao_ext,      \* const vao_ext: "uninit", "null" or "ext"
  error_text,   \* content of the error_text element
  gl_state,     \* "undefined" or "set" (the object holds "buffers")
  raf,          \* pending requestAnimationFrame callbacks
  first_time,   \* var first_time
  last_time,    \* var last_time
  last_x, last_y,
  curr_x, curr_y,
  throw_state,
  modelMatrix,  \* the Float32Array of 9 entries, as a tuple (index 0 is [1])
  onpointermove,\* canvas.onpointermove: "null" or "onDrag"
  ev            \* the task the event loop dispatched last

packVars == <<variant, buffers, points, color, bufferIdx, cross, thrown, calls>>
progVars == <<pc, env, gl, vao_ext, error_text, gl_state, raf, first_time, last_time,
              last_x, last_y, curr_x, curr_y, throw_state, modelMatrix,
              onpointermove, ev>>
vars == <<packVars, progVars>>

-----------------------------------------------------------------------------
(* Bounds of the model *)

\* addPolygon calls made by the packing harness after its starting state
MaxCalls == 2

\* Number of points of the large polygon the packing harness may pass
BigPolygonPoints == 30

-----------------------------------------------------------------------------
(* Program constants *)

stride == 20
CubeVertexCapacity == 64
IndexCapacity == 128
StripVertexCapacity == 16

Abs(x) == IF x < 0 THEN -x ELSE x

\* Number of 32-bit words of the vertexArray of a variant (stride * capacity / 4)
VertexWords(v) ==
  IF v = "strip" THEN (stride * StripVertexCapacity) \div 4
                 ELSE (stride * CubeVertexCapacity) \div 4

\* new ArrayBuffer / new Uint16Array: zero-filled; the buffers object literal.
\* vertexArray is held as its 32-bit words: a word under the Float32Array view
\* holds a coordinate, a word under the Uint32Array view a packed normal or
\* color.  tesseract.js makes no index array.
RECURSIVE Zeros(_)
Zeros(n) ==
  IF n = 0 THEN <<>>
  ELSE IF n % 2 = 0 THEN LET h == Zeros(n \div 2) IN h \o h
  ELSE Append(Zeros(n - 1), 0)

NewBuffers(v) ==
  [ vertexArray |-> Zeros(VertexWords(v)),
    indexArray  |-> IF v = "strip" THEN <<>> ELSE Zeros(IndexCapacity),
    vertexCount |-> 0,
    indexCount  |-> 0 ]

-----------------------------------------------------------------------------
(* addPolygon: the normal *)

\* A faulty normal with the operands of the cross product exchanged:
\* (p2-p0) x (p1-p0)
CrossExchanged(pts) ==
  LET v0x == pts[4] - pts[1]
      v0y == pts[5] - pts[2]
      v0z == pts[6] - pts[3]
      v1x == pts[7] - pts[1]
      v1y == pts[8] - pts[2]
      v1z == pts[9] - pts[3]
  IN  << v1y * v0z - v0y * v1z,
         v1z * v0x - v0z * v1x,
         v1x * v0y - v0x * v1y >>

\* The raw normal: cross product of the edges p1-p0 and p2-p0 (points is the
\* flat x,y,z array of the source; TLA+ sequences count from 1)
CrossOf(pts) ==
  LET v0x == pts[4] - pts[1]
      v0y == pts[5] - pts[2]
      v0z == pts[6] - pts[3]
      v1x == pts[7] - pts[1]
      v1y == pts[8] - pts[2]
      v1z == pts[9] - pts[3]
  IN  << v0y * v1z - v1y * v0z,
         v0z * v1x - v1z * v0x,
         v0x * v1y - v1x * v0y >>

\* Index (0..2) of the component picked as the largest, with the source's
\* strict comparisons
MaxInd(c) ==
  IF Abs(c[1]) > Abs(c[2])
    THEN (IF Abs(c[1]) > Abs(c[3]) THEN 0 ELSE 2)
    ELSE (IF Abs(c[2]) > Abs(c[3]) THEN 1 ELSE 2)

\* part_001: Math.round(c * (127.5 / m) - .5) & 0xFF.  Math.round(y) is
\* floor(y + 0.5), so the byte is floor(255 c / 2m) mod 256.  m = 0 makes
\* scale Infinity and the product NaN (or +-Infinity), which & 0xFF maps to 0.
SignedByte(c, m) ==
  IF m = 0 THEN 0 ELSE ((255 * c) \div (2 * m)) % 256

\* part_000, tesseract.js: Math.round((c * (1.0 / m) + 1.0) * 127.5), that is
\* floor((255 (c + m) + m) / 2m); NaN | 0 is 0 when m = 0.  (The doubles of
\* the source give this value at every normal of this model; they can fall
\* one below it when (c / m + 1) * 127.5 is an exact half, as at c / m = 2/3.)
BiasedByte(c, m) ==
  IF m = 0 THEN 0 ELSE (255 * (c + m) + m) \div (2 * m)

NormalByte(v, c, m) ==
  IF v = "signed" THEN SignedByte(c, m) ELSE BiasedByte(c, m)

\* nx | (ny << 8) | (nz << 16)
NormalWord(v, c) ==
  LET m == Abs(c[MaxInd(c) + 1])
  IN  NormalByte(v, c[1], m) + 256 * NormalByte(v, c[2], m)
        + 65536 * NormalByte(v, c[3], m)

-----------------------------------------------------------------------------
(* addPolygon: the writes *)

\* A faulty slice that forgets the factor 3: points.slice(i, i + 3)
SliceUnscaled(pts, i) ==
  IF i >= Len(pts) THEN <<>>
  ELSE SubSeq(pts, i + 1, IF i + 3 <= Len(pts) THEN i + 3 ELSE Len(pts))

\* points.slice(i*3, i*3 + 3): clipped at the end of the array
Slice3(pts, i) ==
  IF i * 3 >= Len(pts) THEN <<>>
  ELSE SubSeq(pts, i * 3 + 1, IF i * 3 + 3 <= Len(pts) THEN i * 3 + 3 ELSE Len(pts))

\* TypedArray.prototype.set(source, offset): RangeError when the source does
\* not fit, otherwise the elements are copied.  A typed array is a sequence
\* here: its element [k] is arr[k + 1].
SetFits(arr, src, offset) ==
  Len(src) + offset <= Len(arr)

RECURSIVE SetArray(_, _, _)
SetArray(arr, src, offset) ==
  IF Len(src) = 0 THEN arr
  ELSE SetArray([arr EXCEPT ![offset + 1] = Head(src)], Tail(src), offset + 1)

\* The loop of the indexed variants (part_000 lines 92-100, part_001 lines
\* 98-106), from iteration i on.  st is [b |-> buffers, thrown |-> ...].
RECURSIVE CubeLoop(_, _, _, _, _)
CubeLoop(st, pts, norm_color, index0, i) ==
  LET b == st.b IN
  IF ~(i * 3 < Len(pts)) THEN st
  ELSE IF ~SetFits(b.vertexArray, Slice3(pts, i), b.vertexCount * 5)
         \/ ~SetFits(b.vertexArray, norm_color, b.vertexCount * 5 + 3)
    THEN [st EXCEPT !.thrown = "RangeError"]
  ELSE
    LET va == SetArray(SetArray(b.vertexArray, Slice3(pts, i), b.vertexCount * 5),
                       norm_color, b.vertexCount * 5 + 3)
        b1 == [b EXCEPT !.vertexArray = va]
    IN  IF i > 1
          THEN IF ~SetFits(b1.indexArray, <<0, 0, 0>>, b1.indexCount)
                 THEN [b |-> b1, thrown |-> "RangeError"]
                 ELSE CubeLoop(
                        [b |-> [b1 EXCEPT
                                  !.indexArray = SetArray(b1.indexArray,
                                      <<index0, b1.vertexCount - 1, b1.vertexCount>>,
                                      b1.indexCount),
                                  !.indexCount = b1.indexCount + 3,
                                  !.vertexCount = b1.vertexCount + 1],
                         thrown |-> st.thrown],
                        pts, norm_color, index0, i + 1)
          ELSE CubeLoop([b |-> [b1 EXCEPT !.vertexCount = b1.vertexCount + 1],
                         thrown |-> st.thrown],
                        pts, norm_color, index0, i + 1)

\* The loop of tesseract.js (lines 72-75): i runs over points.length, the
\* number of coordinates, and writes at record i + bufferIdx.
RECURSIVE StripLoop(_, _, _, _, _)
StripLoop(st, pts, norm_color, idx, i) ==
  LET b == st.b IN
  IF ~(i < Len(pts)) THEN st
  ELSE IF ~SetFits(b.vertexArray, Slice3(pts, i), (i + idx) * 5)
         \/ ~SetFits(b.vertexArray, norm_color, (i + idx) * 5 + 3)
    THEN [st EXCEPT !.thrown = "RangeError"]
  ELSE StripLoop(
         [st EXCEPT !.b.vertexArray =
            SetArray(SetArray(b.vertexArray, Slice3(pts, i), (i + idx) * 5),
                     norm_color, (i + idx) * 5 + 3)],
         pts, norm_color, idx, i + 1)

\* A faulty addPolygon whose triangle fan starts at the vertex after the
\* polygon instead of at its first vertex
AddPolygonFanFromNext(v, b, idx, col, pts) ==
  LET norm_color == << NormalWord(v, CrossOf(pts)), col >>
      st0 == [b |-> b, thrown |-> "none"]
  IN  IF v = "strip"
        THEN LET st == StripLoop(st0, pts, norm_color, idx, 0)
             IN  IF st.thrown = "none"
                   THEN [st EXCEPT !.b.vertexCount = b.vertexCount + (Len(pts) \div 3)]
                   ELSE st
        ELSE CubeLoop(st0, pts, norm_color, b.vertexCount + (Len(pts) \div 3), 0)

\* addPolygon of variant v on buffers b: the buffers it leaves and whether it
\* threw.  The colors of the model are below 2^31, where color | 0 and the
\* Uint32Array store keep the value.
AddPolygon(v, b, idx, col, pts) ==
  LET norm_color == << NormalWord(v, CrossOf(pts)), col >>
      st0 == [b |-> b, thrown |-> "none"]
  IN  IF v = "strip"
        THEN LET st == StripLoop(st0, pts, norm_color, idx, 0)
             IN  IF st.thrown = "none"
                   THEN [st EXCEPT !.b.vertexCount = b.vertexCount + (Len(pts) \div 3)]
                   ELSE st
        ELSE CubeLoop(st0, pts, norm_color, b.vertexCount, 0)

-----------------------------------------------------------------------------
(* initBuffers: the geometry *)

\* Faulty geometry: the back face listed in the winding of the front face
CubeFacesBackReversed ==
  << << -1, -1,  1,    1, -1,  1,    1,  1,  1,   -1,  1,  1 >>,
     << -1, -1, -1,    1, -1, -1,    1,  1, -1,   -1,  1, -1 >>,
     << -1,  1, -1,   -1,  1,  1,    1,  1,  1,    1,  1, -1 >>,
     <<  1, -1, -1,    1, -1,  1,   -1, -1,  1,   -1, -1, -1 >>,
     <<  1,  1, -1,    1,  1,  1,    1, -1,  1,    1, -1, -1 >>,
     << -1, -1, -1,   -1, -1,  1,   -1,  1,  1,   -1,  1, -1 >> >>

\* The six faces of part_001 lines 139-174 (part_000 lines 133-168 pack the
\* same points with other colors)
CubeFaces ==
  << << -1, -1,  1,    1, -1,  1,    1,  1,  1,   -1,  1,  1 >>,
     << -1,  1, -1,    1,  1, -1,    1, -1, -1,   -1, -1, -1 >>,
     << -1,  1, -1,   -1,  1,  1,    1,  1,  1,    1,  1, -1 >>,
     <<  1, -1, -1,    1, -1,  1,   -1, -1,  1,   -1, -1, -1 >>,
     <<  1,  1, -1,    1,  1,  1,    1, -1,  1,    1, -1, -1 >>,
     << -1, -1, -1,   -1, -1,  1,   -1,  1,  1,   -1,  1, -1 >> >>

\* 0x000A0AFF, 0x0000FF00, 0x00FF0808 (part_001)
FaceColors == << 658175, 658175, 65280, 65280, 16713736, 16713736 >>

-----------------------------------------------------------------------------
(* JavaScript numbers: undefined, NaN, or the rational n/d with d > 0 in      *)
(* lowest terms                                                               *)

RECURSIVE Gcd(_, _)
Gcd(a, b) == IF b = 0 THEN Abs(a) ELSE Gcd(b, a % Abs(b))

Undefined == [k |-> "undefined", n |-> 0, d |-> 1]
NaN == [k |-> "NaN", n |-> 0, d |-> 1]

Rat(n, d) ==
  LET g == Gcd(n, d)
      sg == IF d < 0 THEN -1 ELSE 1
  IN  [k |-> "num", n |-> sg * (n \div g), d |-> sg * (d \div g)]

Num(i) == [k |-> "num", n |-> i, d |-> 1]

IsNum(a) == a.k = "num"

\* a + b, a - b, a * b, a / b of JavaScript: undefined converts to NaN, NaN
\* is absorbing.  Division is only applied to non-zero divisors in this model.
Add(a, b) ==
  IF ~IsNum(a) \/ ~IsNum(b) THEN NaN
  ELSE LET l == (a.d \div Gcd(a.d, b.d)) * b.d
       IN  Rat(a.n * (l \div a.d) + b.n * (l \div b.d), l)

Neg(a) == IF ~IsNum(a) THEN NaN ELSE [a EXCEPT !.n = -a.n]

Sub(a, b) == Add(a, Neg(b))

Mul(a, b) ==
  IF ~IsNum(a) \/ ~IsNum(b) THEN NaN
  ELSE LET g1 == Gcd(a.n, b.d)
           g2 == Gcd(b.n, a.d)
       IN  IF a.n = 0 \/ b.n = 0 THEN Num(0)
           ELSE Rat((a.n \div g1) * (b.n \div g2), (a.d \div g2) * (b.d \div g1))

Div(a, b) ==
  IF ~IsNum(a) \/ ~IsNum(b) \/ b.n = 0 THEN NaN
  ELSE Mul(a, Rat(b.d, b.n))

\* a < 0, a == 0: false for NaN
Less0(a) == IsNum(a) /\ a.n < 0
Eq0(a) == IsNum(a) /\ a.n = 0

\* !a : undefined, NaN and 0 are falsy
Falsy(a) == ~IsNum(a) \/ a.n = 0

\* a === b for numbers and undefined
StrictEq(a, b) ==
  \/ a.k = "undefined" /\ b.k = "undefined"
  \/ IsNum(a) /\ IsNum(b) /\ a.n = b.n /\ a.d = b.d

\* Math.min of two numbers
Min2(a, b) == IF a < b THEN a ELSE b

-----------------------------------------------------------------------------
(* Sampled time *)

\* The timestamps requestAnimationFrame may hand to animate, in ms after the
\* time origin: the origin itself (a first frame whose clamped timestamp is
\* 0), three frames 173 ms apart and one after a pause of more than three
\* minutes
TimeSet == {0, 173, 346, 519, 200173}

\* Math.exp(x) at the arguments x = -dt * .004 the model reaches, dt a
\* positive difference of TimeSet.  exp(-0.692) = 0.5006, exp(-1.384) =
\* 0.2506 and exp(-2.076) = 0.1254 are rounded to the nearest power of two.
\* For x < -745.14 the double result is exactly 0: exp(x) is then below half
\* the smallest subnormal, 2^-1075 = exp(-745.13).
Exp(x) ==
  CASE ~IsNum(x) -> NaN
    [] IsNum(x) /\ x.n = 0 -> Num(1)
    [] IsNum(x) /\ x = Rat(-692, 1000) -> Rat(1, 2)
    [] IsNum(x) /\ x = Rat(-1384, 1000) -> Rat(1, 4)
    [] IsNum(x) /\ x = Rat(-2076, 1000) -> Rat(1, 8)
    [] IsNum(x) /\ x.n * 100 < -74514 * x.d -> Num(0)

\* << Math.cos(0.00059 t), Math.sin(0.00097 t), Math.sin(0.00071 t),
\*    Math.sin(0.00083 t) >> at the differences t of TimeSet, in quarters
\* (rounded to the nearest quarter)
Wave(t) ==
  CASE t = 0      -> <<  4,  0,  0,  0 >>
    [] t = 173    -> <<  4,  1,  0,  1 >>
    [] t = 346    -> <<  4,  1,  1,  1 >>
    [] t = 519    -> <<  4,  2,  1,  2 >>
    [] t = 199654 -> <<  0, -4, -1,  3 >>
    [] t = 199827 -> <<  0, -3, -2,  2 >>
    [] t = 200000 -> <<  1, -3, -2,  2 >>
    [] t = 200173 -> <<  1, -2, -3,  1 >>

-----------------------------------------------------------------------------
(* The orientation matrix *)

Identity == << Num(1), Num(0), Num(0),
               Num(0), Num(1), Num(0),
               Num(0), Num(0), Num(1) >>

\* The quaternion-to-matrix formula of makeDemoRotation (part_001 lines
\* 295-310) for the quaternion (w, x, y, z)
QuatMatrix(w, x, y, z) ==
  LET ww == Mul(w, w)  xx == Mul(x, x)  yy == Mul(y, y)  zz == Mul(z, z)
      s == Div(Num(2), Add(Add(ww, xx), Add(yy, zz)))
      wx == Mul(w, x)  wy == Mul(w, y)  wz == Mul(w, z)
      xy == Mul(x, y)  xz == Mul(x, z)
      yz == Mul(y, z)
  IN  << Sub(Num(1), Mul(s, Add(yy, zz))),
         Mul(s, Sub(xy, wz)),
         Mul(s, Add(xz, wy)),
         Mul(s, Add(xy, wz)),
         Sub(Num(1), Mul(s, Add(xx, zz))),
         Mul(s, Sub(yz, wx)),
         Mul(s, Sub(xz, wy)),
         Mul(s, Add(yz, wx)),
         Sub(Num(1), Mul(s, Add(xx, yy))) >>

\* A faulty demo rotation that takes the cosine for x and the first sine for w
DemoRotationSwapped(time) ==
  IF ~IsNum(time) THEN [i \in 1..9 |-> NaN]
  ELSE LET q == Wave(time.n \div time.d)
       IN  QuatMatrix(Rat(q[2], 4), Rat(q[1], 4), Rat(q[3], 4), Rat(q[4], 4))

\* makeDemoRotation(time) (part_001 lines 289-311; makeRotation of part_000
\* lines 247-269 is the same code): the matrix it writes.  time - first_time
\* is a whole number of ms in this model.
MakeDemoRotation(time) ==
  IF ~IsNum(time) THEN [i \in 1..9 |-> NaN]
  ELSE LET q == Wave(time.n \div time.d)
       IN  QuatMatrix(Rat(q[1], 4), Rat(q[2], 4), Rat(q[3], 4), Rat(q[4], 4))

\* A faulty increment whose diagonal lacks the leading 1
IncrementNoUnit(dx, dy) ==
  LET xx == Mul(dx, dx)  yy == Mul(dy, dy)
      xy == Mul(dx, dy)
      s == Div(Num(2), Add(Add(Num(1), xx), yy))
  IN  << Neg(Mul(s, yy)),
         Mul(s, xy),
         Mul(s, dy),
         Mul(s, xy),
         Neg(Mul(s, xx)),
         Mul(s, Neg(dx)),
         Mul(s, Neg(dy)),
         Mul(s, dx),
         Neg(Mul(s, Add(xx, yy))) >>

\* The increment of applyMouseRotation (lines 322-333): mm0..mm8 for the
\* deltas dx, dy
MouseIncrement(dx, dy) ==
  LET xx == Mul(dx, dx)  yy == Mul(dy, dy)
      xy == Mul(dx, dy)
      s == Div(Num(2), Add(Add(Num(1), xx), yy))
  IN  << Sub(Num(1), Mul(s, yy)),
         Mul(s, xy),
         Mul(s, dy),
         Mul(s, xy),
         Sub(Num(1), Mul(s, xx)),
         Mul(s, Neg(dx)),
         Mul(s, Neg(dy)),
         Mul(s, dx),
         Sub(Num(1), Mul(s, Add(xx, yy))) >>

\* A faulty product that stores each entry as soon as it is computed, so the
\* later entries of a row read entries already overwritten
MatMulInPlace(M, mm) ==
  LET RowInPlace(A, r) ==
        LET A1 == [A EXCEPT ![3 * r + 1] =
                     Add(Add(Mul(A[3 * r + 1], mm[1]), Mul(A[3 * r + 2], mm[4])),
                         Mul(A[3 * r + 3], mm[7]))]
            A2 == [A1 EXCEPT ![3 * r + 2] =
                     Add(Add(Mul(A1[3 * r + 1], mm[2]), Mul(A1[3 * r + 2], mm[5])),
                         Mul(A1[3 * r + 3], mm[8]))]
        IN  [A2 EXCEPT ![3 * r + 3] =
               Add(Add(Mul(A2[3 * r + 1], mm[3]), Mul(A2[3 * r + 2], mm[6])),
                   Mul(A2[3 * r + 3], mm[9]))]
  IN  RowInPlace(RowInPlace(RowInPlace(M, 0), 1), 2)

\* The hand-coded product of lines 335-349, in the order of the source.  The
\* array is read at 1..9 for the source's [0]..[8].  For each row in turn:
\* two temporaries and the new third entry are computed from the array as it
\* is, the third entry is stored, then the temporaries are stored.
MatMul(M, mm) ==
  LET RowStep(A, r) ==
        LET temp0 == Add(Add(Mul(A[3 * r + 1], mm[1]), Mul(A[3 * r + 2], mm[4])),
                         Mul(A[3 * r + 3], mm[7]))
            temp1 == Add(Add(Mul(A[3 * r + 1], mm[2]), Mul(A[3 * r + 2], mm[5])),
                         Mul(A[3 * r + 3], mm[8]))
            A1 == [A EXCEPT ![3 * r + 3] =
                     Add(Add(Mul(A[3 * r + 1], mm[3]), Mul(A[3 * r + 2], mm[6])),
                         Mul(A[3 * r + 3], mm[9]))]
            A2 == [A1 EXCEPT ![3 * r + 1] = temp0]
        IN  [A2 EXCEPT ![3 * r + 2] = temp1]
  IN  RowStep(RowStep(RowStep(M, 0), 1), 2)

\* applyMouseRotation(scale, dt) (lines 313-354) on the record
\* [throw_state, last_x, last_y, curr_x, curr_y, modelMatrix]
ApplyMouseRotation(g, scale, dt) ==
  LET speed == Mul(Div(Rat(-14, 10), Num(scale)),
                   IF Eq0(g.throw_state) THEN Num(1) ELSE g.throw_state)
      ts == Mul(g.throw_state, Exp(Mul(Neg(dt), Rat(4, 1000))))
      dy == Mul(Sub(g.curr_x, g.last_x), speed)
      dx == Mul(Sub(g.curr_y, g.last_y), speed)
      mat == MatMul(g.modelMatrix, MouseIncrement(dx, dy))
  IN  [ throw_state |-> ts,
        modelMatrix |-> mat,
        last_x |-> IF Eq0(ts) THEN g.curr_x ELSE g.last_x,
        last_y |-> IF Eq0(ts) THEN g.curr_y ELSE g.last_y,
        curr_x |-> g.curr_x,
        curr_y |-> g.curr_y ]

-----------------------------------------------------------------------------
(* The environment's inputs *)

\* e.button of a pointer event: the primary button and a secondary one
Buttons == {0, 2}

\* << e.x, e.y >> of a pointer event, in CSS pixels: two points that differ
\* in both coordinates, so that a drag between them turns about both axes
Positions == { <<0, 0>>, <<500, 500>> }

\* << innerWidth, innerHeight >>
Windows == { <<1000, 700>> }

NoEvent ==
  [type |-> "none", button |-> 0, x |-> 0, y |-> 0, time |-> 0,
   defaultPrevented |-> FALSE, drawn |-> FALSE]

PointerEvent(t, b, x, y, prevented) ==
  [type |-> t, button |-> b, x |-> x, y |-> y, time |-> 0,
   defaultPrevented |-> prevented, drawn |-> FALSE]

FrameEvent(t, drawn) ==
  [type |-> "frame", button |-> 0, x |-> 0, y |-> 0, time |-> t,
   defaultPrevented |-> FALSE, drawn |-> drawn]

-----------------------------------------------------------------------------
(* The program of part_001 *)

Init ==
  /\ variant = "signed"
  /\ buffers = NewBuffers("signed")
  /\ points = <<>>
  /\ color = 0
  /\ bufferIdx = 0
  /\ cross = <<0, 0, 0>>
  /\ thrown = "none"
  /\ calls = 0
  /\ pc = "load"
  /\ env \in [webgl : BOOLEAN, vao : BOOLEAN]
  /\ gl = "uninit"
  /\ vao_ext = "uninit"
  /\ error_text = ""
  /\ gl_state = "undefined"
  /\ raf = 0
  /\ first_time = Undefined
  /\ last_time = Undefined
  /\ last_x = Undefined
  /\ last_y = Undefined
  /\ curr_x = Undefined
  /\ curr_y = Undefined
  /\ throw_state = Num(-1)
  /\ modelMatrix = Identity
  /\ onpointermove = "null"
  /\ ev = NoEvent

\* Lines 3-5: getContext, then gl.getExtension.  With gl null the property
\* access of line 5 throws a TypeError, which ends the script.
Lookup ==
  /\ pc = "load"
  /\ gl' = IF env.webgl THEN "context" ELSE "null"
  /\ IF ~env.webgl
       THEN /\ thrown' = "TypeError"
            /\ pc' = "crashed"
            /\ vao_ext' = vao_ext
       ELSE /\ thrown' = thrown
            /\ pc' = "startup"
            /\ vao_ext' = IF env.vao THEN "ext" ELSE "null"
  /\ UNCHANGED <<variant, buffers, points, color, bufferIdx, cross, calls>>
  /\ UNCHANGED <<env, error_text, gl_state, raf, first_time, last_time, last_x,
                 last_y, curr_x, curr_y, throw_state, modelMatrix, onpointermove, ev>>

\* Lines 431-445: the error branches, or on to initGLState / initBuffers
Startup ==
  /\ pc = "startup"
  /\ IF gl = "null"
       THEN /\ error_text' = "Can't create webgl context!"
            /\ pc' = "error"
       ELSE IF vao_ext = "null"
         THEN /\ error_text' = "VAO extension not supported!"
              /\ pc' = "error"
         ELSE /\ error_text' = error_text
              /\ pc' = "initBuffers"
  /\ UNCHANGED packVars
  /\ UNCHANGED <<env, gl, vao_ext, gl_state, raf, first_time, last_time, last_x,
                 last_y, curr_x, curr_y, throw_state, modelMatrix, onpointermove, ev>>

\* One addPolygon call of initBuffers (lines 139-174)
PackFace ==
  /\ pc = "initBuffers"
  /\ calls < Len(CubeFaces)
  /\ LET pts == CubeFaces[calls + 1]
         col == FaceColors[calls + 1]
         st == AddPolygon(variant, buffers, 0, col, pts)
     IN  /\ points' = pts
         /\ color' = col
         /\ cross' = CrossOf(pts)
         /\ buffers' = st.b
         /\ thrown' = st.thrown
         /\ pc' = IF st.thrown = "none" THEN pc ELSE "crashed"
  /\ calls' = calls + 1
  /\ UNCHANGED <<variant, bufferIdx>>
  /\ UNCHANGED <<env, gl, vao_ext, error_text, gl_state, raf, first_time, last_time,
                 last_x, last_y, curr_x, curr_y, throw_state, modelMatrix,
                 onpointermove, ev>>

\* The rest of initBuffers and initGLState, then line 447
StartLoop ==
  /\ pc = "initBuffers"
  /\ calls = Len(CubeFaces)
  /\ gl_state' = "set"
  /\ raf' = raf + 1
  /\ pc' = "running"
  /\ UNCHANGED packVars
  /\ UNCHANGED <<env, gl, vao_ext, error_text, first_time, last_time, last_x,
                 last_y, curr_x, curr_y, throw_state, modelMatrix, onpointermove, ev>>

\* A faulty animate that compares the timestamp with first_time instead of
\* last_time
AnimateEpochCompared(time, win) ==
  /\ pc = "running"
  /\ raf > 0
  /\ ~IsNum(last_time) \/ time >= last_time.n
  /\ raf' = (raf - 1) + 1
  /\ LET ft == IF Falsy(first_time) THEN Num(time) ELSE first_time
     IN  /\ first_time' = ft
         /\ IF (IsNum(first_time) /\ StrictEq(Num(time), first_time)) \/ gl = "null"
              THEN /\ ev' = FrameEvent(time, FALSE)
                   /\ UNCHANGED <<last_time, last_x, last_y, curr_x, curr_y,
                                  throw_state, modelMatrix>>
              ELSE LET dt == Sub(Num(time), last_time)
                       scale == Min2(win[2], win[1])
                   IN  /\ last_time' = Num(time)
                       /\ ev' = FrameEvent(time, TRUE)
                       /\ IF Less0(throw_state)
                            THEN /\ modelMatrix' = MakeDemoRotation(Sub(Num(time), ft))
                                 /\ UNCHANGED <<last_x, last_y, curr_x, curr_y,
                                                throw_state>>
                            ELSE LET r == ApplyMouseRotation(
                                            [throw_state |-> throw_state,
                                             last_x |-> last_x, last_y |-> last_y,
                                             curr_x |-> curr_x, curr_y |-> curr_y,
                                             modelMatrix |-> modelMatrix],
                                            scale, dt)
                                 IN  /\ throw_state' = r.throw_state
                                     /\ modelMatrix' = r.modelMatrix
                                     /\ last_x' = r.last_x
                                     /\ last_y' = r.last_y
                                     /\ curr_x' = r.curr_x
                                     /\ curr_y' = r.curr_y
  /\ UNCHANGED packVars
  /\ UNCHANGED <<pc, env, gl, vao_ext, error_text, gl_state, onpointermove>>

\* animate(time) (lines 358-398) with the window size win
Animate(time, win) ==
  /\ pc = "running"
  /\ raf > 0
  /\ ~IsNum(last_time) \/ time >= last_time.n
  /\ raf' = (raf - 1) + 1
  /\ LET ft == IF Falsy(first_time) THEN Num(time) ELSE first_time
     IN  /\ first_time' = ft
         /\ IF StrictEq(Num(time), last_time) \/ gl = "null"
              THEN /\ ev' = FrameEvent(time, FALSE)
                   /\ UNCHANGED <<last_time, last_x, last_y, curr_x, curr_y,
                                  throw_state, modelMatrix>>
              ELSE LET dt == Sub(Num(time), last_time)
                       scale == Min2(win[2], win[1])
                   IN  /\ last_time' = Num(time)
                       /\ ev' = FrameEvent(time, TRUE)
                       /\ IF Less0(throw_state)
                            THEN /\ modelMatrix' = MakeDemoRotation(Sub(Num(time), ft))
                                 /\ UNCHANGED <<last_x, last_y, curr_x, curr_y,
                                                throw_state>>
                            ELSE LET r == ApplyMouseRotation(
                                            [throw_state |-> throw_state,
                                             last_x |-> last_x, last_y |-> last_y,
                                             curr_x |-> curr_x, curr_y |-> curr_y,
                                             modelMatrix |-> modelMatrix],
                                            scale, dt)
                                 IN  /\ throw_state' = r.throw_state
                                     /\ modelMatrix' = r.modelMatrix
                                     /\ last_x' = r.last_x
                                     /\ last_y' = r.last_y
                                     /\ curr_x' = r.curr_x
                                     /\ curr_y' = r.curr_y
  /\ UNCHANGED packVars
  /\ UNCHANGED <<pc, env, gl, vao_ext, error_text, gl_state, onpointermove>>

\* A faulty onDown that also resets the orientation
OnDownResetsMatrix(b, x, y) ==
  /\ pc = "running"
  /\ IF b # 0
       THEN /\ ev' = PointerEvent("down", b, x, y, FALSE)
            /\ UNCHANGED <<onpointermove, last_x, last_y, curr_x, curr_y,
                           throw_state, modelMatrix>>
       ELSE /\ onpointermove' = "onDrag"
            /\ last_x' = Num(x)
            /\ last_y' = Num(y)
            /\ curr_x' = Num(x)
            /\ curr_y' = Num(y)
            /\ throw_state' = Num(0)
            /\ modelMatrix' = Identity
            /\ ev' = PointerEvent("down", b, x, y, TRUE)
  /\ UNCHANGED packVars
  /\ UNCHANGED <<pc, env, gl, vao_ext, error_text, gl_state, raf, first_time,
                 last_time>>

\* onDown(e) (lines 400-411)
OnDown(b, x, y) ==
  /\ pc = "running"
  /\ IF b # 0
       THEN /\ ev' = PointerEvent("down", b, x, y, FALSE)
            /\ UNCHANGED <<onpointermove, last_x, last_y, curr_x, curr_y, throw_state>>
       ELSE /\ onpointermove' = "onDrag"
            /\ last_x' = Num(x)
            /\ last_y' = Num(y)
            /\ curr_x' = Num(x)
            /\ curr_y' = Num(y)
            /\ throw_state' = Num(0)
            /\ ev' = PointerEvent("down", b, x, y, TRUE)
  /\ UNCHANGED packVars
  /\ UNCHANGED <<pc, env, gl, vao_ext, error_text, gl_state, raf, first_time,
                 last_time, modelMatrix>>

\* A faulty onUp that leaves the release coordinates unrecorded
OnUpNoCoordinates(x, y) ==
  /\ pc = "running"
  /\ IF onpointermove = "null"
       THEN /\ ev' = PointerEvent("up", 0, x, y, FALSE)
            /\ UNCHANGED <<onpointermove, throw_state>>
       ELSE /\ onpointermove' = "null"
            /\ throw_state' = Num(1)
            /\ ev' = PointerEvent("up", 0, x, y, TRUE)
  /\ UNCHANGED packVars
  /\ UNCHANGED <<pc, env, gl, vao_ext, error_text, gl_state, raf, first_time,
                 last_time, last_x, last_y, curr_x, curr_y, modelMatrix>>

\* onUp(e) (lines 413-422)
OnUp(x, y) ==
  /\ pc = "running"
  /\ IF onpointermove = "null"
       THEN /\ ev' = PointerEvent("up", 0, x, y, FALSE)
            /\ UNCHANGED <<onpointermove, curr_x, curr_y, throw_state>>
       ELSE /\ onpointermove' = "null"
            /\ curr_x' = Num(x)
            /\ curr_y' = Num(y)
            /\ throw_state' = Num(1)
            /\ ev' = PointerEvent("up", 0, x, y, TRUE)
  /\ UNCHANGED packVars
  /\ UNCHANGED <<pc, env, gl, vao_ext, error_text, gl_state, raf, first_time,
                 last_time, last_x, last_y, modelMatrix>>

\* onDrag(e) (lines 424-428): runs only while installed as onpointermove
OnDrag(x, y) ==
  /\ pc = "running"
  /\ onpointermove = "onDrag"
  /\ curr_x' = Num(x)
  /\ curr_y' = Num(y)
  /\ ev' = PointerEvent("move", 0, x, y, TRUE)
  /\ UNCHANGED packVars
  /\ UNCHANGED <<pc, env, gl, vao_ext, error_text, gl_state, raf, first_time,
                 last_time, last_x, last_y, throw_state, modelMatrix, onpointermove>>

Next ==
  \/ Lookup
  \/ Startup
  \/ PackFace
  \/ StartLoop
  \/ \E time \in TimeSet, win \in Windows : Animate(time, win)
  \/ \E b \in Buttons, p \in Positions : OnDown(b, p[1], p[2])
  \/ \E p \in Positions : OnUp(p[1], p[2])
  \/ \E p \in Positions : OnDrag(p[1], p[2])

Spec == Init /\ [][Next]_vars

-----------------------------------------------------------------------------
(* The packer on its own: addPolygon applied to arbitrary polygons *)

Triangle == << 0, 0, 0,   2, 0, 0,   0, 3, 0 >>

\* A parallelogram whose normal (-2, -3, 6) lies along no axis
Tilted == << 0, 0, 0,   3, 0, 1,   3, 2, 2,   0, 2, 1 >>

Pentagon == << 0, 0, 0,   2, 0, 0,   3, 1, 0,   1, 3, 0,   -1, 1, 0 >>

\* First three points on one line
Degenerate == << 0, 0, 0,   1, 0, 0,   2, 0, 0,   0, 1, 0 >>

\* The points (i, i^2, 0), i = 0 .. BigPolygonPoints - 1: a convex polygon
BigPolygon ==
  [k \in 1..(3 * BigPolygonPoints) |->
     LET i == (k - 1) \div 3
         c == (k - 1) % 3
     IN  IF c = 0 THEN i ELSE IF c = 1 THEN i * i ELSE 0]

\* The polygons the harness may pass: the front and the right face of the
\* cube and the polygons above
Polygons ==
  {CubeFaces[1], CubeFaces[5], Triangle, Tilted, Pentagon, Degenerate, BigPolygon}

Colors == {658175, 65280}

\* How many cube faces the harness may have packed in turn before its first
\* arbitrary call.  Indexed variants: none, or as many as leave room for one
\* more quad, or as many as fill the vertex array.  tesseract.js: none, one,
\* or three.
Prefill(v) == IF v = "strip" THEN {0, 1, 3} ELSE {0, 15, 16}

InitPack ==
  /\ variant \in {"signed", "biased", "strip"}
  /\ buffers = NewBuffers(variant)
  /\ points = <<>>
  /\ color = 0
  /\ bufferIdx = 0
  /\ cross = <<0, 0, 0>>
  /\ thrown = "none"
  /\ calls = 0
  /\ pc = "prefill"
  /\ env = [webgl |-> TRUE, vao |-> TRUE]
  /\ gl = "context"
  /\ vao_ext = "ext"
  /\ error_text = ""
  /\ gl_state = "undefined"
  /\ raf = 0
  /\ first_time = Undefined
  /\ last_time = Undefined
  /\ last_x = Undefined
  /\ last_y = Undefined
  /\ curr_x = Undefined
  /\ curr_y = Undefined
  /\ throw_state = Num(-1)
  /\ modelMatrix = Identity
  /\ onpointermove = "null"
  /\ ev = NoEvent

\* addPolygon(buffers, color, points), or addPolygon(buffers, bufferIdx,
\* color, points) in tesseract.js; an exception ends the script
CallAddPolygon(idx, col, pts) ==
  /\ thrown = "none"
  /\ LET st == AddPolygon(variant, buffers, idx, col, pts)
     IN  /\ buffers' = st.b
         /\ thrown' = st.thrown
  /\ points' = pts
  /\ color' = col
  /\ bufferIdx' = idx
  /\ cross' = CrossOf(pts)
  /\ UNCHANGED variant
  /\ UNCHANGED <<env, gl, vao_ext, error_text, gl_state, raf, first_time, last_time,
                 last_x, last_y, curr_x, curr_y, throw_state, modelMatrix,
                 onpointermove, ev>>

\* The harness packs the next cube face the way initBuffers does: the indexed
\* variants at the vertex cursor, tesseract.js with bufferIdx 0 (line 104).
\* calls counts the faces packed.
PrefillFace ==
  /\ pc = "prefill"
  /\ \E n \in Prefill(variant) : calls < n
  /\ LET f == (calls % Len(CubeFaces)) + 1
     IN  CallAddPolygon(0, FaceColors[f], CubeFaces[f])
  /\ calls' = calls + 1
  /\ pc' = pc

\* The harness packs an arbitrary polygon; from the first such call on, calls
\* counts these
PackCall(idx, col, pts) ==
  /\ \/ pc = "prefill" /\ calls \in Prefill(variant) /\ calls' = 1
     \/ pc = "pack" /\ calls < MaxCalls /\ calls' = calls + 1
  /\ pc' = "pack"
  /\ CallAddPolygon(idx, col, pts)

NextPack ==
  \/ PrefillFace
  \/ \E pts \in Polygons, col \in Colors, idx \in {0, buffers.vertexCount} :
       PackCall(IF variant = "strip" THEN idx ELSE 0, col, pts)

SpecPack == InitPack /\ [][NextPack]_vars

-----------------------------------------------------------------------------
(* Properties of the pointer handlers, the packer and the start-up script *)

\* The state after a primary-button pointer-down at (ev.x, ev.y)
DownRecorded ==
  /\ throw_state' = Num(0)
  /\ last_x' = Num(ev'.x)
  /\ last_y' = Num(ev'.y)
  /\ curr_x' = Num(ev'.x)
  /\ curr_y' = Num(ev'.y)

\* The state after a pointer-up at (ev.x, ev.y) that ends a drag
UpRecorded ==
  /\ throw_state' = Num(1)
  /\ curr_x' = Num(ev'.x)
  /\ curr_y' = Num(ev'.y)

\* C1 as stated: every pointer-down sets throw_state to 0 and records the
\* event coordinates as the last and the current position, and every
\* pointer-up records the release coordinates as the current position and
\* sets throw_state to 1.
C1_EveryPointerEvent ==
  [][ /\ ev'.type = "down" => DownRecorded
      /\ ev'.type = "up" => UpRecorded ]_vars

\* C1, amended: a pointer-down of the primary button (e.button === 0) sets
\* throw_state to 0 and records the event coordinates as the last and the
\* current position; a pointer-up that arrives while onDrag is installed as
\* canvas.onpointermove records the release coordinates as the current
\* position and sets throw_state to 1.  A pointer-down of another button and
\* a pointer-up outside a drag leave throw_state and all four coordinates as
\* they were.
C1_PointerTransitions ==
  [][ /\ (ev'.type = "down" /\ ev'.button = 0) => DownRecorded
      /\ (ev'.type = "down" /\ ev'.button # 0) =>
           UNCHANGED <<throw_state, last_x, last_y, curr_x, curr_y, onpointermove>>
      /\ (ev'.type = "up" /\ onpointermove = "onDrag") => UpRecorded
      /\ (ev'.type = "up" /\ onpointermove = "null") =>
           UNCHANGED <<throw_state, last_x, last_y, curr_x, curr_y, onpointermove>>
    ]_vars

\* A release away from the press has been handled: thrown, with the release
\* point as the current and the press point as the last position
C1_Released ==
  /\ ev.type = "up"
  /\ ev.defaultPrevented
  /\ throw_state = Num(1)
  /\ curr_x = Num(ev.x) /\ curr_y = Num(ev.y)
  /\ last_x # curr_x

\* What a completed indexed addPolygon call must have appended for the P
\* points it was given: P records at the old vertex cursor and P - 2 triangles
\* at the old index cursor
Appended ==
  LET P == Len(points') \div 3
      v0 == buffers.vertexCount
      i0 == buffers.indexCount
  IN  /\ thrown' = "none"
      /\ buffers'.vertexCount = v0 + P
      /\ buffers'.indexCount = i0 + 3 * (P - 2)
      /\ \A j \in 0..(P - 1) :
           /\ \A c \in 1..3 :
                buffers'.vertexArray[(v0 + j) * 5 + c] = points'[3 * j + c]
           /\ buffers'.vertexArray[(v0 + j) * 5 + 4]
                = NormalWord(variant, CrossOf(points'))
           /\ buffers'.vertexArray[(v0 + j) * 5 + 5] = color'
      /\ \A t \in 0..(P - 3) :
           /\ buffers'.indexArray[i0 + 3 * t + 1] = v0
           /\ buffers'.indexArray[i0 + 3 * t + 2] = v0 + t + 1
           /\ buffers'.indexArray[i0 + 3 * t + 3] = v0 + t + 2

\* C2 as stated: in the indexed variants every addPolygon call with P points
\* appends P vertex records and P - 2 triangles and advances vertexCount by P
\* and indexCount by 3 (P - 2).  (Every step of the packing harness is one
\* addPolygon call.)
C2_EveryCallAppends ==
  [][ (variant \in {"signed", "biased"}) => Appended ]_vars

\* C2, amended: in the indexed variants an addPolygon call with P >= 3 points
\* for which the arrays have room (vertexCount + P <= 64 and
\* indexCount + 3 (P - 2) <= 128) appends P vertex records and P - 2 triangles
\* and advances vertexCount by P and indexCount by 3 (P - 2).
C2_CallWithRoomAppends ==
  [][ ( /\ variant \in {"signed", "biased"}
        /\ buffers.vertexCount + (Len(points') \div 3) <= CubeVertexCapacity
        /\ buffers.indexCount + 3 * ((Len(points') \div 3) - 2) <= IndexCapacity )
      => Appended ]_vars

\* A pentagon has been appended after a quad
C2_PentagonAfterQuad ==
  /\ variant = "signed"
  /\ thrown = "none"
  /\ points = Pentagon
  /\ buffers.vertexCount = 9
  /\ buffers.indexCount = 15

\* The declared vertex capacity of a variant's buffer
VertexCapacity(v) ==
  IF v = "strip" THEN StripVertexCapacity ELSE CubeVertexCapacity

\* C3: packing never leaves the cumulative vertex count above the declared
\* capacity (64 in the cube variants, 16 in tesseract.js) without an error
\* having been raised.
C3_CapacityError ==
  buffers.vertexCount > VertexCapacity(variant) => thrown # "none"

\* C4: when the context is null or the extension is missing, the script ends
\* with the corresponding message shown, no GL state and no frame requested.
C4_TerminalErrorBranch ==
  (pc \in {"error", "crashed"} /\ (gl = "null" \/ vao_ext = "null")) =>
    /\ error_text = (IF gl = "null" THEN "Can't create webgl context!"
                                    ELSE "VAO extension not supported!")
    /\ gl_state = "undefined"
    /\ raf = 0

-----------------------------------------------------------------------------
(* Properties of the orientation matrix and of throw_state *)

\* a <= b for numbers
LessEq(a, b) == IsNum(a) /\ IsNum(b) /\ a.n * b.d <= b.n * a.d

\* A frame is being rendered through applyMouseRotation from a state with
\* throw_state >= 0 in which the current pointer equals the last pointer
ZeroDeltaFrame ==
  /\ ev'.type = "frame"
  /\ ev'.drawn
  /\ IsNum(throw_state) /\ throw_state.n >= 0
  /\ IsNum(curr_x) /\ curr_x = last_x
  /\ IsNum(curr_y) /\ curr_y = last_y

\* C5: applyMouseRotation with zero pointer delta, for any dt and any
\* throw_state >= 0, leaves every entry of modelMatrix unchanged.
C5_ZeroDeltaKeepsMatrix ==
  [][ ZeroDeltaFrame => modelMatrix' = modelMatrix ]_vars

\* A thrown cube with zero pointer delta has decayed over a 173 ms frame, its
\* matrix being a rotation the demo left
C5_ThrownWithoutDelta ==
  /\ ev.type = "frame"
  /\ ev.drawn
  /\ throw_state = Rat(1, 2)
  /\ curr_x = last_x /\ curr_y = last_y
  /\ modelMatrix # Identity
  /\ \A i \in 1..9 : IsNum(modelMatrix[i])

\* C6: after a pointer-up, every rendered frame with a finite dt leaves
\* throw_state strictly positive and no larger than before the frame.
C6_DecayStaysPositive ==
  [][ ( /\ ev'.type = "frame"
        /\ ev'.drawn
        /\ IsNum(last_time)
        /\ IsNum(throw_state) /\ throw_state.n > 0 )
      => ( /\ IsNum(throw_state')
           /\ throw_state'.n > 0
           /\ LessEq(throw_state', throw_state) ) ]_vars

\* Column c (0..2) of a matrix as gl.uniformMatrix3fv reads it (transpose
\* false: column-major)
Column(M, c) == << M[3 * c + 1], M[3 * c + 2], M[3 * c + 3] >>

DotNum(a, b) == Add(Add(Mul(a[1], b[1]), Mul(a[2], b[2])), Mul(a[3], b[3]))

\* Unit-length, pairwise-orthogonal columns; false of a matrix holding NaN
Orthonormal(M) ==
  \A i, j \in 0..2 :
    DotNum(Column(M, i), Column(M, j)) = (IF i = j THEN Num(1) ELSE Num(0))

\* C7: modelMatrix is orthonormal in every reachable state.
C7_Orthonormal == Orthonormal(modelMatrix)

\* The same, of the states in which modelMatrix holds numbers only
OrthonormalWhileFinite ==
  (\A i \in 1..9 : IsNum(modelMatrix[i])) => Orthonormal(modelMatrix)

\* C8: a demo frame whose elapsed time, time - first_time, is 0 leaves
\* exactly the identity in modelMatrix.
C8_DemoAtZeroIsIdentity ==
  ( /\ ev.type = "frame"
    /\ ev.drawn
    /\ Less0(throw_state)
    /\ first_time = Num(ev.time) )
  => modelMatrix = Identity

\* The first frame has been rendered in demo mode
C8_FirstDemoFrame ==
  /\ ev.type = "frame"
  /\ ev.drawn
  /\ Less0(throw_state)
  /\ first_time = Num(ev.time)
  /\ last_time = first_time
  /\ modelMatrix = Identity

-----------------------------------------------------------------------------
(* Properties of the normal *)

\* Point i (0-based) of a flat coordinate array
PointAt(pts, i) == << pts[3 * i + 1], pts[3 * i + 2], pts[3 * i + 3] >>

VSub(a, b) == << a[1] - b[1], a[2] - b[2], a[3] - b[3] >>

Dot3(a, b) == a[1] * b[1] + a[2] * b[2] + a[3] * b[3]

\* Determinant of the matrix with rows a, b, c: positive when (a, b, c) is a
\* right-handed triple
Det3(a, b, c) ==
  a[1] * (b[2] * c[3] - b[3] * c[2])
    - a[2] * (b[1] * c[3] - b[3] * c[1])
    + a[3] * (b[1] * c[2] - b[2] * c[1])

Sign(x) == IF x > 0 THEN 1 ELSE IF x < 0 THEN -1 ELSE 0

\* The same polygon with its points in the opposite order
ReversePoints(pts) ==
  LET P == Len(pts) \div 3
  IN  [k \in 1..(3 * P) |-> pts[3 * (P - 1 - ((k - 1) \div 3)) + ((k - 1) % 3) + 1]]

\* A planar, strictly convex polygon: its first corner spans a plane with
\* normal direction w, every point lies in that plane, and every point lies
\* strictly to the left of every edge it is not an end of, seen against w
Convex(pts) ==
  LET P == Len(pts) \div 3
      p(i) == PointAt(pts, i % P)
      e0 == VSub(p(1), p(0))
      e1 == VSub(p(2), p(0))
      w == << e0[2] * e1[3] - e0[3] * e1[2],
              e0[3] * e1[1] - e0[1] * e1[3],
              e0[1] * e1[2] - e0[2] * e1[1] >>
  IN  /\ P >= 3
      /\ Len(pts) = 3 * P
      /\ w # <<0, 0, 0>>
      /\ \A k \in 0..(P - 1) : Dot3(VSub(p(k), p(0)), w) = 0
      /\ \A i \in 0..(P - 1) : \A k \in 0..(P - 1) :
           (k # i /\ k # (i + 1) % P) =>
             Det3(VSub(p(i + 1), p(i)), VSub(p(k), p(i)), w) > 0

\* C9: for a convex planar polygon the normal addPolygon computed is the
\* right-hand-rule cross product of the edges e0 = p1 - p0 and e1 = p2 - p0
\* (orthogonal to both, (e0, e1, normal) right-handed, squared length
\* |e0|^2 |e1|^2 - (e0 . e1)^2), and the normal of the same polygon with its
\* points reversed has the opposite sign in every component.
C9_RightHandNormal ==
  (points # <<>> /\ Convex(points)) =>
    LET e0 == VSub(PointAt(points, 1), PointAt(points, 0))
        e1 == VSub(PointAt(points, 2), PointAt(points, 0))
        rev == CrossOf(ReversePoints(points))
    IN  /\ Dot3(cross, e0) = 0
        /\ Dot3(cross, e1) = 0
        /\ Det3(e0, e1, cross) > 0
        /\ Dot3(cross, cross) = Dot3(e0, e0) * Dot3(e1, e1) - Dot3(e0, e1) * Dot3(e0, e1)
        /\ \A c \in 1..3 : Sign(rev[c]) = -Sign(cross[c])

\* addPolygon has computed the normal of the tilted parallelogram
C9_TiltedPacked ==
  /\ points = Tilted
  /\ Convex(points)
  /\ cross = <<-2, -3, 6>>

\* The direction from the cube's centre to the centre of a quad: the mean of
\* its four points
FaceAxis(face) ==
  [c \in 1..3 |-> (face[c] + face[3 + c] + face[6 + c] + face[9 + c]) \div 4]

\* C10: the raw normal of the front quad is (0, 0, 4), and the raw normal of
\* each of the six faces initBuffers packs is a positive multiple of the unit
\* axis vector that points from the cube's centre to that face.
C10_OutwardNormals ==
  (pc = "initBuffers" /\ calls >= 1) =>
    LET axis == FaceAxis(points)
    IN  /\ points = CubeFaces[calls]
        /\ calls = 1 => (points = <<-1, -1, 1, 1, -1, 1, 1, 1, 1, -1, 1, 1>>
                         /\ cross = <<0, 0, 4>>)
        /\ Dot3(axis, axis) = 1
        /\ \E m \in 1..4 : cross = [c \in 1..3 |-> m * axis[c]]

\* initBuffers has packed the sixth face, whose normal points along -x
C10_LeftFacePacked ==
  /\ pc = "initBuffers"
  /\ calls = 6
  /\ cross = <<-4, 0, 0>>

-----------------------------------------------------------------------------
(* Properties of the quantized normal *)

\* gl.vertexAttribPointer(squareAttribs.normal, 4, gl.BYTE, true, stride, 12):
\* the type all three files declare for the normal attribute
NormalAttribType(v) == "BYTE"

\* Byte c (1..3) of a packed word: nx, ny, nz
ByteOf(word, c) ==
  IF c = 1 THEN word % 256
  ELSE IF c = 2 THEN (word \div 256) % 256
  ELSE (word \div 65536) % 256

\* 255 times the float a normalized byte attribute yields in WebGL 1 (OpenGL
\* ES 2.0, section 2.1.2): (2 c + 1) / 255 for a BYTE with two's complement
\* value c, c / 255 for an UNSIGNED_BYTE
Decoded255(type, byte) ==
  IF type = "BYTE"
    THEN 2 * (IF byte >= 128 THEN byte - 256 ELSE byte) + 1
    ELSE byte

\* Every decoded byte of the normal word of variant v for the raw normal cr
\* lies within 1/127.5 = 2/255 of cr's component over its largest magnitude m
WithinStep(v, cr) ==
  LET m == Abs(cr[MaxInd(cr) + 1])
      w == NormalWord(v, cr)
  IN  \A c \in 1..3 :
        Abs(Decoded255(NormalAttribType(v), ByteOf(w, c)) * m - 255 * cr[c]) <= 2 * m

\* C11: in every variant, for every polygon with a non-zero normal, each
\* normal byte addPolygon writes, decoded as the declared attribute type, lies
\* within one quantization step (1/127.5) of the component of the normal
\* scaled to largest magnitude 1.
C11_QuantizationMatchesType ==
  (points # <<>> /\ cross # <<0, 0, 0>>) => WithinStep(variant, cross)

\* The same, of part_001 alone
SignedQuantizationWithinStep ==
  (variant = "signed" /\ points # <<>> /\ cross # <<0, 0, 0>>)
    => WithinStep(variant, cross)

\* C12: an addPolygon call whose first three points are collinear or
\* coincident (zero cross product) appends no vertex record: it leaves the
\* vertex array and the vertex count as they were.  (Every step of the
\* packing harness is one addPolygon call.)
C12_DegenerateRejected ==
  [][ (cross' = <<0, 0, 0>>) =>
        /\ buffers'.vertexArray = buffers.vertexArray
        /\ buffers'.vertexCount = buffers.vertexCount ]_vars

-----------------------------------------------------------------------------
(* Properties of the frame callback and of the time state *)

\* C13: a frame callback whose timestamp equals that of the previous rendered
\* frame (last_time) draws nothing and changes no state at all: the matrix,
\* the pointer coordinates, throw_state, first_time and last_time stay, and
\* exactly one callback is pending again.
C13_SameTimestampSkipped ==
  [][ (ev'.type = "frame" /\ IsNum(last_time) /\ ev'.time = last_time.n) =>
        /\ ~ev'.drawn
        /\ raf' = raf
        /\ raf' >= 1
        /\ UNCHANGED <<modelMatrix, last_x, last_y, curr_x, curr_y, throw_state,
                       first_time, last_time, onpointermove, pc, gl_state,
                       packVars>> ]_vars

\* A frame has been skipped in the middle of a throw
C13_SkippedDuringThrow ==
  /\ ev.type = "frame"
  /\ ~ev.drawn
  /\ last_time = Num(ev.time)
  /\ throw_state = Rat(1, 2)
  /\ raf = 1

\* C14: the first frame callback sets first_time to its timestamp, and
\* first_time never changes once a frame callback has run.
C14_EpochFixedByFirstFrame ==
  [][ /\ (ev'.type = "frame" /\ first_time = Undefined) => first_time' = Num(ev'.time)
      /\ (first_time # Undefined) => first_time' = first_time ]_vars

\* The same, once first_time holds a non-zero timestamp
EpochFixedWhenNonZero ==
  [][ (IsNum(first_time) /\ first_time.n # 0) => first_time' = first_time ]_vars

\* C15: only the frame callback writes modelMatrix, first_time and last_time:
\* a step that changes any of them is a frame callback, and the steps of
\* onDown, onUp and onDrag leave all three as they were.
C15_FrameCallbackOnlyWriter ==
  [][ /\ (modelMatrix' # modelMatrix \/ first_time' # first_time
            \/ last_time' # last_time) => ev'.type = "frame"
      /\ (ev'.type \in {"down", "up", "move"}) =>
           UNCHANGED <<modelMatrix, first_time, last_time>> ]_vars

\* A primary-button press has been handled on a cube the frames had turned
C15_PressOnTurnedCube ==
  /\ ev.type = "down"
  /\ ev.defaultPrevented
  /\ IsNum(last_time)
  /\ modelMatrix # Identity

-----------------------------------------------------------------------------
(* Capacity of the cube buffers *)

\* The colors of the six addPolygon calls of part_000
DemoFaceColors == << 255, 255, 65280, 65280, 16711680, 16711680 >>

\* The buffers of variant v after the first n addPolygon calls of initBuffers
RECURSIVE InitBuffersAfter(_, _)
InitBuffersAfter(v, n) ==
  IF n = 0 THEN NewBuffers(v)
  ELSE AddPolygon(v, InitBuffersAfter(v, n - 1), 0,
                  IF v = "signed" THEN FaceColors[n] ELSE DemoFaceColors[n],
                  CubeFaces[n]).b

\* The counts are within the arrays and every stored index names a vertex
\* that exists
WithinCapacity(b) ==
  /\ b.vertexCount <= CubeVertexCapacity
  /\ b.indexCount <= IndexCapacity
  /\ \A k \in 1..b.indexCount : b.indexArray[k] < b.vertexCount

\* C16: in the cube variants, in every state during and after initBuffers
\* vertexCount <= 64, indexCount <= 128, every index stored below indexCount
\* is less than vertexCount, and the counts end at 24 and 36.  The state part
\* is the interactive cube (part_001); the second conjunct runs the six calls
\* of the demo cube (part_000).
C16_CubeWithinCapacity ==
  /\ (pc \in {"initBuffers", "running"}) =>
       /\ WithinCapacity(buffers)
       /\ (pc = "running" \/ calls = Len(CubeFaces)) =>
            (buffers.vertexCount = 24 /\ buffers.indexCount = 36)
  /\ \A n \in 0..Len(CubeFaces) :
       LET b == InitBuffersAfter("biased", n)
       IN  /\ WithinCapacity(b)
           /\ (n = Len(CubeFaces)) => (b.vertexCount = 24 /\ b.indexCount = 36)

\* initBuffers has returned with the whole cube packed and a frame has been
\* rendered from it
C16_CubeDrawn ==
  /\ pc = "running"
  /\ ev.type = "frame"
  /\ ev.drawn
  /\ buffers.vertexCount = 24
  /\ buffers.indexCount = 36
  /\ buffers.indexArray[36] = 23

-----------------------------------------------------------------------------
(* Drag frames *)

\* C17: a rendered frame that starts while dragging (throw_state == 0) leaves
\* the last pointer position equal to the current one, so that the next drag
\* frame without a pointer event in between rotates by nothing and no pointer
\* displacement is applied twice.
C17_DragFrameSnaps ==
  [][ (ev'.type = "frame" /\ ev'.drawn /\ Eq0(throw_state)) =>
        (last_x' = curr_x' /\ last_y' = curr_y') ]_vars

\* The same for the drag frames that follow a rendered frame, where dt is a
\* number: throw_state stays 0 and the pointer positions are snapped
DragFrameSnapsWhenTimed ==
  [][ (ev'.type = "frame" /\ ev'.drawn /\ Eq0(throw_state) /\ IsNum(last_time)) =>
        (Eq0(throw_state') /\ last_x' = curr_x' /\ last_y' = curr_y') ]_vars

-----------------------------------------------------------------------------
(* The mouse rotation as a matrix product *)

\* Entry (r, c), both 0..2, of the product of the row-major 3x3 matrices A
\* and B
ProductEntry(A, B, r, c) ==
  Add(Add(Mul(A[3 * r + 1], B[c + 1]), Mul(A[3 * r + 2], B[c + 4])),
      Mul(A[3 * r + 3], B[c + 7]))

Product3(A, B) ==
  [ k \in 1..9 |-> ProductEntry(A, B, (k - 1) \div 3, (k - 1) % 3) ]

\* The deltas applyMouseRotation derives from the pointer positions
DragDelta(curr, last, scale) ==
  Mul(Sub(curr, last),
      Mul(Div(Rat(-14, 10), Num(scale)),
          IF Eq0(throw_state) THEN Num(1) ELSE throw_state))

\* C18: a rendered frame that runs applyMouseRotation replaces modelMatrix
\* by the product of the matrix it found and R, the quaternion formula of
\* makeDemoRotation at w = 1, x = dx, y = dy, z = 0; every entry is computed
\* from the entries the frame found.
C18_MouseRotationIsProduct ==
  [][ (ev'.type = "frame" /\ ev'.drawn /\ ~Less0(throw_state)) =>
        \E win \in Windows :
          LET scale == Min2(win[2], win[1])
              dy == DragDelta(curr_x, last_x, scale)
              dx == DragDelta(curr_y, last_y, scale)
          IN  modelMatrix' =
                Product3(modelMatrix, QuatMatrix(Num(1), dx, dy, Num(0))) ]_vars

\* A drag frame has turned a cube that the demo had already turned: the
\* matrix holds numbers, and it is neither the identity nor symmetric
C18_DragTurnedCube ==
  /\ ev.type = "frame"
  /\ ev.drawn
  /\ Eq0(throw_state)
  /\ \A k \in 1..9 : IsNum(modelMatrix[k])
  /\ modelMatrix # Identity
  /\ modelMatrix[2] # modelMatrix[4]
  /\ modelMatrix[3] # Neg(modelMatrix[7])

-----------------------------------------------------------------------------
(* addPolygon as an append *)

\* The call just made wrote nothing but the P vertex records from record
\* start on and the 3 (P - 2) index entries at the index cursor, and advanced
\* vertexCount by P
PureAppend(start) ==
  LET P == Len(points') \div 3
  IN  /\ \A k \in 1..Len(buffers.vertexArray) :
           (k <= start * 5 \/ k > (start + P) * 5) =>
             buffers'.vertexArray[k] = buffers.vertexArray[k]
      /\ \A k \in 1..Len(buffers.indexArray) :
           (k <= buffers.indexCount \/ k > buffers.indexCount + 3 * (P - 2)) =>
             buffers'.indexArray[k] = buffers.indexArray[k]
      /\ buffers'.vertexCount = buffers.vertexCount + P

\* C19: in all three variants an addPolygon call that returns is a pure
\* append at its insertion position: the vertex cursor in the indexed
\* variants, record bufferIdx in tesseract.js.
C19_AddPolygonPureAppend ==
  [][ (thrown' = "none") =>
        PureAppend(IF variant = "strip" THEN bufferIdx' ELSE buffers.vertexCount)
    ]_vars

\* The same for the indexed variants alone
IndexedAddPolygonPureAppend ==
  [][ (variant # "strip" /\ thrown' = "none") =>
        PureAppend(buffers.vertexCount) ]_vars

-----------------------------------------------------------------------------
(* The frame interval *)

\* C20: whenever a rendered frame runs applyMouseRotation, last_time was set
\* by an earlier rendered frame, so dt = time - last_time is a number, and
\* the frame leaves numbers in throw_state and in every entry of modelMatrix.
C20_DtDefined ==
  [][ (ev'.type = "frame" /\ ev'.drawn /\ ~Less0(throw_state)) =>
        /\ IsNum(last_time)
        /\ IsNum(throw_state')
        /\ \A k \in 1..9 : IsNum(modelMatrix'[k]) ]_vars

\* Once a frame has been rendered, applyMouseRotation keeps a throw_state
\* that is a number
TimedFrameKeepsNumber ==
  [][ (ev'.type = "frame" /\ ev'.drawn /\ IsNum(last_time) /\ IsNum(throw_state)) =>
        IsNum(throw_state') ]_vars

-----------------------------------------------------------------------------
(* Demo mode and pointer mode *)

\* throw_state >= 0: false for NaN
GeqZero(a) == IsNum(a) /\ a.n >= 0

\* C21: throw_state stays below 0 until a pointer-down is accepted, and every
\* frame rendered until then shows the demo rotation; an accepted pointer-down
\* leaves throw_state >= 0, and from then on throw_state is >= 0 in every
\* state, so no later frame runs the demo rotation.
C21_DemoUntilFirstDown ==
  [][ /\ (Less0(throw_state) /\ ~Less0(throw_state')) =>
           (ev'.type = "down" /\ ev'.defaultPrevented)
      /\ (Less0(throw_state) /\ ev'.type = "frame" /\ ev'.drawn) =>
           modelMatrix' = MakeDemoRotation(Sub(Num(ev'.time), first_time'))
      /\ (ev'.type = "down" /\ ev'.defaultPrevented) => GeqZero(throw_state')
      /\ GeqZero(throw_state) => GeqZero(throw_state') ]_vars

\* What holds of the two modes: demo mode is left only by an accepted
\* pointer-down, and the test throw_state < 0 of animate never succeeds
\* again afterwards
DemoModeNeverReturns ==
  [][ /\ (Less0(throw_state) /\ ~Less0(throw_state')) =>
           (ev'.type = "down" /\ ev'.defaultPrevented)
      /\ (Less0(throw_state) /\ ev'.type = "frame" /\ ev'.drawn) =>
           modelMatrix' = MakeDemoRotation(Sub(Num(ev'.time), first_time'))
      /\ (ev'.type = "down" /\ ev'.defaultPrevented) => GeqZero(throw_state')
      /\ ~Less0(throw_state) => ~Less0(throw_state') ]_vars

-----------------------------------------------------------------------------
(* The two capacities *)

\* C22: in the indexed variants an addPolygon call with at least 3 points
\* whose vertices fit (vertexCount + P <= 64) has every index write inside
\* the 128-entry index array: no write is rejected and indexCount stays
\* within 128.
C22_VertexRoomSuffices ==
  [][ ( /\ variant \in {"signed", "biased"}
        /\ Len(points') >= 9
        /\ buffers.vertexCount + (Len(points') \div 3) <= CubeVertexCapacity )
      => (thrown' = "none" /\ buffers'.indexCount <= IndexCapacity) ]_vars

\* With room for the indices as well, no write of the call is rejected
BothRoomsSuffice ==
  [][ ( /\ variant \in {"signed", "biased"}
        /\ Len(points') >= 9
        /\ buffers.vertexCount + (Len(points') \div 3) <= CubeVertexCapacity
        /\ buffers.indexCount + 3 * ((Len(points') \div 3) - 2) <= IndexCapacity )
      => (thrown' = "none" /\ buffers'.indexCount <= IndexCapacity) ]_vars

-----------------------------------------------------------------------------
(* A call that throws *)

\* C23: in the indexed variants an addPolygon call that throws because a
\* vertex or index write does not fit leaves vertexCount, indexCount and the
\* contents of both arrays as they were before the call.
C23_FailedCallChangesNothing ==
  [][ (variant \in {"signed", "biased"} /\ thrown' # "none") =>
        buffers' = buffers ]_vars

\* What a call that throws does keep: the vertex records and index entries
\* below the cursors it found
FailedCallKeepsEarlierRecords ==
  [][ (variant \in {"signed", "biased"} /\ thrown' # "none") =>
        /\ \A k \in 1..(buffers.vertexCount * 5) :
             buffers'.vertexArray[k] = buffers.vertexArray[k]
        /\ \A k \in 1..buffers.indexCount :
             buffers'.indexArray[k] = buffers.indexArray[k] ]_vars

====
